---- MODULE Spec2Model ----
(***************************************************************************)
(* Model of the CryptoWebSocket client (src/lib/websocket.ts): connection  *)
(* lifecycle, subscription registry, reconnect policy, heartbeat and       *)
(* status observers.  Every handler of the class is an operator on a       *)
(* record of the object's fields; every action of Next is one host event   *)
(* (API call, transport event, timer firing) running its handler to        *)
(* completion, as the single-threaded host does.                           *)
(***************************************************************************)
EXTENDS Integers, Sequences, FiniteSets, TLC

\* ---------------------------------------------------------------- bounds
\* Bounds of the connection specification (Spec): long reconnect chains.
MaxTransports == 6
MaxSubscribes == 1
\* Bounds of the registry specification (SpecRegistry): more subscribe calls
\* against fewer transports.
RegTransports == 2
RegSubscribes == 2
\* Bounds of the router specification (SpecRouter): inbound frames.
RouterTransports == 1
RouterSubscribes == 2
\* Bounds of the overwrite specification (SpecOverwrite): repeated subscribe
\* calls on one topic.
OverwriteTransports == 1
OverwriteSubscribes == 2
\* Bounds of the observer specification (SpecObservers).
ObserverTransports == 2
ObserverSubscribes == 1
\* Bounds of the event specification (SpecEvents): every kind of event.
EventTransports == 2
EventSubscribes == 2
\* Bounds of the fair specification (SpecFair): the host keeps its promises.
FairTransports == 3
FairSubscribes == 1
\* The chart specification: ticker frames stamped, and cards mounted
ChartTicks == 102
ChartSubscribes == 1
\* Bounds of the component specification (SpecCard): subscribe calls made by
\* the cards' effects.
CardTransports == 1
CardSubscribes == 3

Topics == {"BTC-USD", "ETH-USD"}
\* The symbol props of the cards App renders (lower case, no two equal).
Symbols == {"btc", "eth"}
\* Identities of a card's handleWebSocketData: useCallback returns a new
\* function whenever markedChange has changed.
Handlers == {"handlerA", "handlerB"}
\* Consumer callbacks.  "cbA" returns normally, "cbB" throws when invoked.
TickerCallbacks == {"cbA", "cbB"}

\* Inbound frames (event.data).  kind "malformed" is text that is not JSON,
\* kind "null" is the JSON text null, kind "object" is a JSON object with the
\* given type, product_id ("" = absent), price and time (0 = absent, n > 0 =
\* the ISO text of the instant n milliseconds after the epoch).
NoFrame == [kind |-> "none", type |-> "", product_id |-> "", price |-> "", time |-> 0]
Frames ==
  {[kind |-> "malformed", type |-> "", product_id |-> "", price |-> "", time |-> 0],
   [kind |-> "null", type |-> "", product_id |-> "", price |-> "", time |-> 0],
   [kind |-> "object", type |-> "subscriptions", product_id |-> "BTC-USD", price |-> "",
    time |-> 0]}
  \cup {[kind |-> "object", type |-> "ticker", product_id |-> p, price |-> "50000.00",
          time |-> 0] :
          p \in Topics \cup {""}}
\* The n-th ticker frame the exchange sends for a product: stamped with the
\* instant n.
TickerFrame(productId, n) ==
  [kind |-> "object", type |-> "ticker", product_id |-> productId,
   price |-> "50000.00", time |-> n]

\* Status observers.  "obsThrow" throws on every invocation, "obsClose" calls
\* close() when it is handed CONNECTED and returns normally.
Observers == {"obsThrow", "obsClose"}

\* ------------------------------------------------------- program constants
CONNECTING == "CONNECTING"
CONNECTED == "CONNECTED"
DISCONNECTED == "DISCONNECTED"
ERROR == "ERROR"
RECONNECTING == "RECONNECTING"
WebSocketState == {CONNECTING, CONNECTED, DISCONNECTED, ERROR, RECONNECTING}

maxReconnectAttempts == 5
reconnectDelay == 1000
\* the length above which the chart drops its oldest point
maxChartPoints == 100
\* the number parseFloat and getTime return for text they cannot read
NaN == -1

VARIABLES
  ws,                 \* this.ws: 0 (null) or the id of the current transport
  readyState,         \* readyState of every transport object ever constructed
  closeFired,         \* transports whose close event has been delivered
  created,            \* number of transport objects constructed so far
  subscribers,        \* this.subscribers: Map in insertion order, <<[key, cb]>>
  statusCallbacks,    \* this.statusCallbacks
  currentState,       \* this.currentState
  reconnectAttempts,  \* this.reconnectAttempts
  heartbeatInterval,  \* this.heartbeatInterval: 0 (null) or an interval id
  intervals,          \* interval timers that are still active in the host
  timers,             \* pending setTimeout(connect) timers: their delays
  handles,            \* subscribe calls so far, with the state of the closure
                      \* each returned: <<[topic, cb, invoked]>>
  sent,               \* messages written to a transport by the last event
  notes,              \* observer invocations made by the last event
  transitions,        \* states passed to updateStatus by the last event
  delivered,          \* per observer, the state it was last invoked with
                      \* ("none" while it is not registered)
  closeCalls,         \* transports on which ws.close() was called by the last event
  frame,              \* the inbound frame handled by the last event, or NoFrame
  calls,              \* consumer callback invocations made by the last event
  uncaught,           \* an exception escaped the handler of the last event
  scheduled,          \* delays of the timers scheduled since the last open event
  closed,             \* close() has been called at some time
  closedConnected,    \* the transport on which close() was last called while
                      \* the state was CONNECTED and no reconnect timer was
                      \* pending (0: never)
  exhausted,          \* handleReconnect has run with the counter at the ceiling
  cards,              \* the CryptoCard components, by symbol: mounted, the
                      \* handle of their latest subscribe, their handler
  charts,             \* the data and chartData state of every card, by symbol
  ticks,              \* ticker frames the exchange has stamped so far
  closeRun,           \* close events handled since construction / the last open
  plainRun,           \* no close() and no synchronous open failure in that run
  last                \* the last event and the state it started from

vars == <<ws, readyState, closeFired, created, subscribers, statusCallbacks,
          currentState, reconnectAttempts, heartbeatInterval, intervals,
          timers, handles, sent, notes, transitions, delivered, closeCalls, frame, calls, uncaught,
          scheduled, closed, closedConnected, exhausted, cards, charts, ticks,
          closeRun, plainRun, last>>

\* The object's fields and the host's bookkeeping as one record.
St ==
  [ws |-> ws, readyState |-> readyState, closeFired |-> closeFired,
   created |-> created, subscribers |-> subscribers,
   statusCallbacks |-> statusCallbacks, currentState |-> currentState,
   reconnectAttempts |-> reconnectAttempts,
   heartbeatInterval |-> heartbeatInterval, intervals |-> intervals,
   timers |-> timers, sent |-> <<>>, notes |-> <<>>, closeCalls |-> <<>>,
   transitions |-> <<>>, delivered |-> delivered,
   frame |-> NoFrame, calls |-> <<>>, uncaught |-> FALSE,
   scheduled |-> scheduled, closed |-> closed,
   closedConnected |-> closedConnected, exhausted |-> exhausted, cards |-> cards,
   charts |-> charts, ticks |-> ticks]

\* ----------------------------------------------------------- small helpers
Keys(m) == [i \in 1..Len(m) |-> m[i].key]
KeySet(m) == {m[i].key : i \in 1..Len(m)}
Range(q) == {q[i] : i \in 1..Len(q)}

RECURSIVE Without(_, _)
Without(q, x) ==
  IF q = <<>> THEN <<>>
  ELSE IF Head(q) = x THEN Without(Tail(q), x)
       ELSE <<Head(q)>> \o Without(Tail(q), x)

RECURSIVE MapDelete(_, _)
MapDelete(m, k) ==
  IF m = <<>> THEN <<>>
  ELSE IF Head(m).key = k THEN MapDelete(Tail(m), k)
       ELSE <<Head(m)>> \o MapDelete(Tail(m), k)

\* Map.set that does not overwrite an existing entry
MapSet_keepFirst(m, k, v) ==
  IF k \in {m[i].key : i \in 1..Len(m)} THEN m ELSE Append(m, [key |-> k, cb |-> v])

\* Map.set: an existing key keeps its position, a new key goes last.
MapSet(m, k, v) ==
  IF k \in KeySet(m)
    THEN [i \in 1..Len(m) |-> IF m[i].key = k THEN [key |-> k, cb |-> v] ELSE m[i]]
    ELSE Append(m, [key |-> k, cb |-> v])

MapHas(m, k) == k \in KeySet(m)
MapGet(m, k) == m[CHOOSE i \in 1..Len(m) : m[i].key = k].cb

\* this.ws?.readyState === WebSocket.OPEN
IsOpen(s) == s.ws # 0 /\ s.readyState[s.ws] = "OPEN"

ReadyStateOf(s, t) == IF t = 0 THEN "NONE" ELSE s.readyState[t]

\* ws.send(JSON.stringify(msg)) on the current transport
Send(s, msg) ==
  [s EXCEPT !.sent = Append(@, [msg |-> msg, to |-> s.ws,
                                 readyState |-> ReadyStateOf(s, s.ws)])]

SubscribeMessage(products) ==
  [type |-> "subscribe", channels |-> <<[name |-> "ticker", product_ids |-> products]>>]
UnsubscribeMessage(products) ==
  [type |-> "unsubscribe", channels |-> <<[name |-> "ticker", product_ids |-> products]>>]
HeartbeatMessage == [type |-> "heartbeat", channels |-> <<>>]

\* a clearInterval that leaves the timer running
ClearInterval_leak(s, id) == s

\* clearInterval(id): the handle field keeps its stale value
ClearInterval(s, id) == [s EXCEPT !.intervals = @ \ {id}]

\* WebSocket.close(): CONNECTING and OPEN go to CLOSING, otherwise nothing
TransportClose(s, t) ==
  [s EXCEPT !.readyState[t] = IF @ \in {"CONNECTING", "OPEN"} THEN "CLOSING" ELSE @,
            !.closeCalls = Append(@, t)]

\* --------------------------------------------------------------- close()
\* close() that clears the attempt counter
close_zero(s) ==
  LET s1 == IF s.heartbeatInterval # 0
              THEN ClearInterval(s, s.heartbeatInterval) ELSE s
      s2 == [s1 EXCEPT !.closed = TRUE,
                       !.closedConnected =
                          IF s.ws # 0 /\ s.currentState = CONNECTED /\ s.timers = <<>>
                            THEN s.ws ELSE @]
  IN IF s2.ws # 0
       THEN TransportClose([s2 EXCEPT !.reconnectAttempts = 0], s2.ws)
       ELSE s2

close(s) ==
  LET s1 == IF s.heartbeatInterval # 0
              THEN ClearInterval(s, s.heartbeatInterval) ELSE s
      s2 == [s1 EXCEPT !.closed = TRUE,
                       !.closedConnected =
                          IF s.ws # 0 /\ s.currentState = CONNECTED /\ s.timers = <<>>
                            THEN s.ws ELSE @]
  IN IF s2.ws # 0
       THEN TransportClose([s2 EXCEPT !.reconnectAttempts = maxReconnectAttempts], s2.ws)
       ELSE s2

\* ------------------------------------------------------- status observers
\* One invocation callback(this.currentState); the result says whether the
\* callback threw.
CallObserver(s, cb) ==
  LET s1 == [s EXCEPT !.notes = Append(@, [cb |-> cb, state |-> s.currentState]),
                       !.delivered[cb] = s.currentState]
      s2 == IF cb = "obsClose" /\ s.currentState = CONNECTED THEN close(s1) ELSE s1
  IN [st |-> s2, threw |-> (cb = "obsThrow")]

\* try { callback(...) } catch (error) { console.error(...) }: the throw is
\* swallowed
TryCatch(r) == r.st

\* forEach without the try block: the first throw ends the iteration
RECURSIVE ForEachObserver_abort(_, _)
ForEachObserver_abort(s, cbs) ==
  IF cbs = <<>> THEN s
  ELSE LET r == CallObserver(s, Head(cbs))
       IN IF r.threw THEN r.st ELSE ForEachObserver_abort(r.st, Tail(cbs))

\* statusCallbacks.forEach(cb => { try { cb(state) } catch { console.error } })
RECURSIVE ForEachObserver(_, _)
ForEachObserver(s, cbs) ==
  IF cbs = <<>> THEN s
  ELSE ForEachObserver(TryCatch(CallObserver(s, Head(cbs))), Tail(cbs))

updateStatus(s, newState) ==
  ForEachObserver([s EXCEPT !.currentState = newState,
                            !.transitions = Append(@, newState)],
                  s.statusCallbacks)

\* ------------------------------------------------------ reconnect policy
\* handleReconnect with the cap tested by <= (a sixth attempt)
handleReconnect_noCap(s) ==
  IF s.reconnectAttempts <= maxReconnectAttempts
    THEN LET s1 == [s EXCEPT !.reconnectAttempts = @ + 1]
             s2 == updateStatus(s1, RECONNECTING)
             d  == reconnectDelay * s2.reconnectAttempts
         IN [s2 EXCEPT !.timers = Append(@, d), !.scheduled = Append(@, d)]
    ELSE IF s.currentState # DISCONNECTED
           THEN updateStatus(s, DISCONNECTED) ELSE s

\* handleReconnect giving up one attempt early
handleReconnect_earlyStop(s) ==
  IF s.reconnectAttempts < maxReconnectAttempts - 1
    THEN LET s1 == [s EXCEPT !.reconnectAttempts = @ + 1]
             s2 == updateStatus(s1, RECONNECTING)
             d  == reconnectDelay * s2.reconnectAttempts
         IN [s2 EXCEPT !.timers = Append(@, d), !.scheduled = Append(@, d)]
    ELSE IF s.currentState # DISCONNECTED
           THEN updateStatus(s, DISCONNECTED) ELSE s

\* handleReconnect setting its timer twice
handleReconnect_twoTimers(s) ==
  IF s.reconnectAttempts < maxReconnectAttempts
    THEN LET s1 == [s EXCEPT !.reconnectAttempts = @ + 1]
             s2 == updateStatus(s1, RECONNECTING)
             d  == reconnectDelay * s2.reconnectAttempts
         IN [s2 EXCEPT !.timers = @ \o <<d, d>>, !.scheduled = Append(@, d)]
    ELSE LET s1 == [s EXCEPT !.exhausted = TRUE]
         IN IF s1.currentState # DISCONNECTED
              THEN updateStatus(s1, DISCONNECTED) ELSE s1

\* handleReconnect that still sets a timer when it gives up
handleReconnect_lateTimer(s) ==
  IF s.reconnectAttempts < maxReconnectAttempts
    THEN LET s1 == [s EXCEPT !.reconnectAttempts = @ + 1]
             s2 == updateStatus(s1, RECONNECTING)
             d  == reconnectDelay * s2.reconnectAttempts
         IN [s2 EXCEPT !.timers = Append(@, d), !.scheduled = Append(@, d)]
    ELSE LET s1 == [s EXCEPT !.exhausted = TRUE,
                             !.timers = Append(@, reconnectDelay * s.reconnectAttempts)]
         IN IF s1.currentState # DISCONNECTED
              THEN updateStatus(s1, DISCONNECTED) ELSE s1

\* handleReconnect that forgets to set the timer
handleReconnect_noTimer(s) ==
  IF s.reconnectAttempts < maxReconnectAttempts
    THEN updateStatus([s EXCEPT !.reconnectAttempts = @ + 1], RECONNECTING)
    ELSE LET s1 == [s EXCEPT !.exhausted = TRUE]
         IN IF s1.currentState # DISCONNECTED
              THEN updateStatus(s1, DISCONNECTED) ELSE s1

handleReconnect(s) ==
  IF s.reconnectAttempts < maxReconnectAttempts
    THEN LET s1 == [s EXCEPT !.reconnectAttempts = @ + 1]
             s2 == updateStatus(s1, RECONNECTING)
             d  == reconnectDelay * s2.reconnectAttempts
         IN [s2 EXCEPT !.timers = Append(@, d), !.scheduled = Append(@, d)]
    ELSE LET s1 == [s EXCEPT !.exhausted = TRUE]
         IN IF s1.currentState # DISCONNECTED
              THEN updateStatus(s1, DISCONNECTED) ELSE s1

\* connect() that reports CONNECTING on every attempt
connect_alwaysConnecting(s, throws) ==
  LET s1 == updateStatus(s, CONNECTING)
  IN IF throws
       THEN handleReconnect(updateStatus(s1, ERROR))
       ELSE [s1 EXCEPT !.ws = s1.created + 1,
                       !.created = @ + 1,
                       !.readyState = Append(@, "CONNECTING")]

\* connect() whose catch block only reports the error
connect_noRetry(s, throws) ==
  LET s1 == IF s.currentState # RECONNECTING THEN updateStatus(s, CONNECTING) ELSE s
  IN IF throws
       THEN updateStatus(s1, ERROR)
       ELSE [s1 EXCEPT !.ws = s1.created + 1,
                       !.created = @ + 1,
                       !.readyState = Append(@, "CONNECTING")]

\* connect(): throws = `new WebSocket(...)` raises synchronously
connect(s, throws) ==
  LET s1 == IF s.currentState # RECONNECTING THEN updateStatus(s, CONNECTING) ELSE s
  IN IF throws
       THEN handleReconnect(updateStatus(s1, ERROR))
       ELSE [s1 EXCEPT !.ws = s1.created + 1,
                       !.created = @ + 1,
                       !.readyState = Append(@, "CONNECTING")]

\* subscribeToProducts sending one request per topic
RECURSIVE SendEach(_, _)
SendEach(s, products) ==
  IF products = <<>> THEN s
  ELSE SendEach(Send(s, SubscribeMessage(<<Head(products)>>)), Tail(products))

subscribeToProducts_perTopic(s) ==
  IF IsOpen(s) THEN SendEach(s, Keys(s.subscribers)) ELSE s

subscribeToProducts(s) ==
  IF IsOpen(s)
    THEN LET products == Keys(s.subscribers)
         IN IF Len(products) > 0 THEN Send(s, SubscribeMessage(products)) ELSE s
    ELSE s

startHeartbeat(s, id) ==
  LET s1 == IF s.heartbeatInterval # 0
              THEN ClearInterval(s, s.heartbeatInterval) ELSE s
  IN [s1 EXCEPT !.heartbeatInterval = id, !.intervals = @ \cup {id}]

\* a heartbeat callback that writes without looking at the transport
heartbeatTick_noGuard(s) == Send(s, HeartbeatMessage)

\* the setInterval callback of startHeartbeat
heartbeatTick(s) ==
  IF IsOpen(s) THEN Send(s, HeartbeatMessage) ELSE s

\* ------------------------------------------------------ transport handlers
\* onopen that keeps the attempt counter
onopen_noReset(s, t) ==
  startHeartbeat(subscribeToProducts(updateStatus(s, CONNECTED)), t)

\* onopen that does not replay the registry
onopen_noReplay(s, t) ==
  startHeartbeat([updateStatus(s, CONNECTED) EXCEPT !.reconnectAttempts = 0], t)

onopen(s, t) ==
  LET s1 == updateStatus(s, CONNECTED)
      s2 == [s1 EXCEPT !.reconnectAttempts = 0]
      s3 == subscribeToProducts(s2)
  IN startHeartbeat(s3, t)

\* JSON.parse(event.data): throws on text that is not JSON
JSONparse(raw) ==
  [threw |-> (raw.kind = "malformed"),
   isNull |-> (raw.kind = "null"),
   data |-> [type |-> raw.type, product_id |-> raw.product_id, price |-> raw.price,
             time |-> raw.time]]

\* the object handed to a consumer callback (lines 114-122)
TickerData(data) ==
  [price |-> data.price, time |-> data.time, product_id |-> data.product_id]

\* String.prototype.toUpperCase on the symbols of the model
toUpperCase(sym) ==
  CASE sym = "btc" -> "BTC" [] sym = "eth" -> "ETH" [] OTHER -> sym

\* const productId = `${symbol.toUpperCase()}-USD`
ProductIdOf(sym) == toUpperCase(sym) \o "-USD"

\* parseFloat on the price texts of the model
parseFloat(text) ==
  CASE text = "50000.00" -> 50000 [] OTHER -> NaN

\* new Date(time).getTime()
DateGetTime(time) == IF time = 0 THEN NaN ELSE time

\* the card's data state before the first ticker (useState(null))
NoData == [currentPrice |-> NaN, change24h |-> 0]

\* the updater handed to setData; the 24h fields, absent from the frames of
\* the model, parse to 0 and are left out
setData(prevData, price) ==
  IF prevData = NoData
    THEN [currentPrice |-> price, change24h |-> 0]
    ELSE [currentPrice |-> price,
          change24h |-> ((price - prevData.currentPrice) * 100) \div prevData.currentPrice]

\* an updater that never drops a point
setChartData_noShift(prevData, point) == Append(prevData, point)

\* an updater that drops the point it has just appended
setChartData_dropNewest(prevData, point) ==
  LET newData == Append(prevData, point)
  IN IF Len(newData) > maxChartPoints THEN SubSeq(newData, 1, Len(newData) - 1)
     ELSE newData

\* the updater handed to setChartData: append, then shift() when the list
\* has grown past the limit
setChartData(prevData, point) ==
  LET newData == Append(prevData, point)
  IN IF Len(newData) > maxChartPoints THEN Tail(newData) ELSE newData

\* handleWebSocketData of the card for sym (either identity: both use
\* updater functions); a card that is not mounted has no state to update
handleWebSocketData(s, sym, wsData) ==
  LET price == parseFloat(wsData.price)
      timestamp == DateGetTime(wsData.time)
  IN IF s.cards[sym].mounted
       THEN [s EXCEPT !.charts[sym].data = setData(@, price),
                      !.charts[sym].chartData =
                         setChartData(@, [timestamp |-> timestamp, price |-> price])]
       ELSE s

\* onClick of the reset button: setChartData([])
resetChart(s, sym) == [s EXCEPT !.charts[sym].chartData = <<>>]

\* callback(tickerData): not inside any try block, so a throw escapes; the
\* handler of a card is the one of the card whose productId is the key
CallTicker(s, cb, data) ==
  LET s1 == [s EXCEPT !.calls = Append(@, [cb |-> cb, data |-> data]),
                      !.uncaught = (cb = "cbB")]
  IN IF cb \in Handlers
       THEN handleWebSocketData(s1, CHOOSE sym \in Symbols :
                                       ProductIdOf(sym) = data.product_id, data)
       ELSE s1

\* onmessage handing a ticker to every registered callback
RECURSIVE CallEach(_, _, _)
CallEach(s, m, data) ==
  IF m = <<>> THEN s ELSE CallEach(CallTicker(s, Head(m).cb, data), Tail(m), data)

onmessage_broadcast(s, raw) ==
  LET p == JSONparse(raw)
  IN IF p.threw \/ p.isNull
       THEN [s EXCEPT !.uncaught = TRUE]
       ELSE IF p.data.type = "ticker" /\ p.data.product_id # ""
              THEN IF MapHas(s.subscribers, p.data.product_id)
                     THEN CallEach(s, s.subscribers, TickerData(p.data))
                     ELSE s
              ELSE s

\* onmessage that does not look at the message type
onmessage_anyType(s, raw) ==
  LET p == JSONparse(raw)
  IN IF p.threw \/ p.isNull
       THEN [s EXCEPT !.uncaught = TRUE]
       ELSE IF p.data.product_id # ""
              THEN IF MapHas(s.subscribers, p.data.product_id)
                     THEN CallTicker(s, MapGet(s.subscribers, p.data.product_id),
                                     TickerData(p.data))
                     ELSE s
              ELSE s

onmessage(s, raw) ==
  LET p == JSONparse(raw)
  IN IF p.threw \/ p.isNull
       THEN [s EXCEPT !.uncaught = TRUE]
       ELSE IF p.data.type = "ticker" /\ p.data.product_id # ""
              THEN IF MapHas(s.subscribers, p.data.product_id)
                     THEN CallTicker(s, MapGet(s.subscribers, p.data.product_id),
                                     TickerData(p.data))
                     ELSE s
              ELSE s

\* onerror that also takes the reconnect decision
onerror_reconnect(s) == handleReconnect(updateStatus(s, ERROR))

\* onerror writing the state without going through updateStatus
onerror_silent(s) == [s EXCEPT !.currentState = ERROR]

onerror(s) == updateStatus(s, ERROR)

\* onclose taking the reconnect decision before it reports DISCONNECTED
onclose_reconnectFirst(s) ==
  LET s1 == IF s.heartbeatInterval # 0
              THEN ClearInterval(s, s.heartbeatInterval) ELSE s
  IN updateStatus(handleReconnect(s1), DISCONNECTED)

\* onclose dropping the registry on disconnect
onclose_clear(s) ==
  LET s1 == IF s.heartbeatInterval # 0
              THEN ClearInterval(s, s.heartbeatInterval) ELSE s
  IN handleReconnect(updateStatus([s1 EXCEPT !.subscribers = <<>>], DISCONNECTED))

onclose(s) ==
  LET s1 == IF s.heartbeatInterval # 0
              THEN ClearInterval(s, s.heartbeatInterval) ELSE s
  IN handleReconnect(updateStatus(s1, DISCONNECTED))

\* ----------------------------------------------------------- registry API
\* subscribe guarded by the connection state instead of the transport's
subscribe_stateGuard(s, productId, callback) ==
  LET s1 == [s EXCEPT !.subscribers = MapSet(@, productId, callback)]
  IN IF s1.currentState = CONNECTED
       THEN Send(s1, SubscribeMessage(<<productId>>)) ELSE s1

subscribe(s, productId, callback) ==
  LET s1 == [s EXCEPT !.subscribers = MapSet(@, productId, callback)]
  IN IF IsOpen(s1) THEN Send(s1, SubscribeMessage(<<productId>>)) ELSE s1

\* a closure that writes the unsubscribe message without looking at the
\* transport
unsubscribe_noGuard(s, productId) ==
  Send([s EXCEPT !.subscribers = MapDelete(@, productId)],
       UnsubscribeMessage(<<productId>>))

\* the closure returned by subscribe(productId, _)
unsubscribe(s, productId) ==
  LET s1 == [s EXCEPT !.subscribers = MapDelete(@, productId)]
  IN IF IsOpen(s1) THEN Send(s1, UnsubscribeMessage(<<productId>>)) ELSE s1

\* ------------------------------------------------------------- CryptoCard
\* The body of the subscribe effect: subscribe, and keep the returned handle
\* (the h-th of the client) for the cleanup.
cardEffect(s, sym, handler, h) ==
  [subscribe(s, ProductIdOf(sym), handler) EXCEPT
     !.cards[sym] = [mounted |-> TRUE, handle |-> h, handler |-> handler]]

\* a cleanup that does not call the handle
cardCleanup_skip(s, productId) == s

\* The cleanup of the subscribe effect: unsubscribe(), the closure that
\* captured productId.
cardCleanup(s, productId) == unsubscribe(s, productId)

\* ------------------------------------------------------------ observer API
\* onStatusChange notifying only a callback it has just added
onStatusChange_newOnly(s, callback) ==
  IF callback \notin Range(s.statusCallbacks)
    THEN TryCatch(CallObserver([s EXCEPT !.statusCallbacks = Append(@, callback)],
                               callback))
    ELSE s

\* onStatusChange without the includes() test
onStatusChange_noDedup(s, callback) ==
  TryCatch(CallObserver([s EXCEPT !.statusCallbacks = Append(@, callback)], callback))

onStatusChange(s, callback) ==
  LET s1 == IF callback \notin Range(s.statusCallbacks)
              THEN [s EXCEPT !.statusCallbacks = Append(@, callback)] ELSE s
  IN TryCatch(CallObserver(s1, callback))

\* offStatusChange removing the most recently added observer, whatever the
\* argument
offStatusChange_pop(s, callback) ==
  [s EXCEPT !.statusCallbacks = SubSeq(@, 1, Len(@) - 1)]

offStatusChange(s, callback) ==
  [s EXCEPT !.statusCallbacks = Without(@, callback)]

getCurrentState(s) == s.currentState

\* ------------------------------------------------------------------ state
\* What an event started from, kept for the properties that relate the state
\* before a handler to the state after it.
Before(op, n, name, s) ==
  [op |-> op, n |-> n, name |-> name, attempts |-> s.reconnectAttempts,
   state |-> s.currentState]

\* The fields of the object before the constructor body runs (lines 60-67).
Fields ==
  [ws |-> 0, readyState |-> <<>>,
   closeFired |-> {}, created |-> 0, subscribers |-> <<>>,
   statusCallbacks |-> <<>>, currentState |-> CONNECTING,
   reconnectAttempts |-> 0, heartbeatInterval |-> 0, intervals |-> {},
   timers |-> <<>>, sent |-> <<>>, notes |-> <<>>, closeCalls |-> <<>>,
   transitions |-> <<>>, delivered |-> [o \in Observers |-> "none"],
   frame |-> NoFrame, calls |-> <<>>, uncaught |-> FALSE,
   scheduled |-> <<>>, closed |-> FALSE, closedConnected |-> 0,
   exhausted |-> FALSE,
   cards |-> [sym \in Symbols |-> [mounted |-> FALSE, handle |-> 0, handler |-> ""]],
   charts |-> [sym \in Symbols |-> [data |-> NoData, chartData |-> <<>>]],
   ticks |-> 0]

\* constructor(): updateStatus(CONNECTING); connect()
constructor(throws) == connect(updateStatus(Fields, CONNECTING), throws)

\* Install the result r of a handler as the next state.
Becomes(r) ==
  \E v \in {r} :
    /\ ws' = v.ws
    /\ readyState' = v.readyState
    /\ closeFired' = v.closeFired
    /\ created' = v.created
    /\ subscribers' = v.subscribers
    /\ statusCallbacks' = v.statusCallbacks
    /\ currentState' = v.currentState
    /\ reconnectAttempts' = v.reconnectAttempts
    /\ heartbeatInterval' = v.heartbeatInterval
    /\ intervals' = v.intervals
    /\ timers' = v.timers
    /\ sent' = v.sent
    /\ notes' = v.notes
    /\ transitions' = v.transitions
    /\ delivered' = v.delivered
    /\ closeCalls' = v.closeCalls
    /\ frame' = v.frame
    /\ calls' = v.calls
    /\ uncaught' = v.uncaught
    /\ scheduled' = v.scheduled
    /\ closed' = v.closed
    /\ closedConnected' = v.closedConnected
    /\ exhausted' = v.exhausted
    /\ cards' = v.cards
    /\ charts' = v.charts
    /\ ticks' = v.ticks

Init ==
  \E throws \in BOOLEAN :
    LET r == constructor(throws) IN
    /\ ws = r.ws
    /\ readyState = r.readyState
    /\ closeFired = r.closeFired
    /\ created = r.created
    /\ subscribers = r.subscribers
    /\ statusCallbacks = r.statusCallbacks
    /\ currentState = r.currentState
    /\ reconnectAttempts = r.reconnectAttempts
    /\ heartbeatInterval = r.heartbeatInterval
    /\ intervals = r.intervals
    /\ timers = r.timers
    /\ sent = r.sent
    /\ notes = r.notes
    /\ transitions = r.transitions
    /\ delivered = r.delivered
    /\ closeCalls = r.closeCalls
    /\ frame = r.frame
    /\ calls = r.calls
    /\ uncaught = r.uncaught
    /\ scheduled = r.scheduled
    /\ closed = r.closed
    /\ closedConnected = r.closedConnected
    /\ exhausted = r.exhausted
    /\ cards = r.cards
    /\ charts = r.charts
    /\ ticks = r.ticks
    /\ handles = <<>>
    /\ closeRun = 0
    /\ plainRun = ~throws
    /\ last = Before("constructor", 0, "", Fields)

\* ---------------------------------------------------------------- actions
\* subscribe(topic, cb) called by a consumer
Subscribe(topic, cb, maxS) ==
  /\ Len(handles) < maxS
  /\ Becomes(subscribe(St, topic, cb))
  /\ handles' = Append(handles, [topic |-> topic, cb |-> cb, invoked |-> FALSE])
  /\ last' = Before("subscribe", 0, topic, St)
  /\ UNCHANGED <<closeRun, plainRun>>

\* a consumer invokes the handle returned by the h-th subscribe call
Unsubscribe(h) ==
  /\ h \in 1..Len(handles)
  /\ Becomes(unsubscribe(St, handles[h].topic))
  /\ handles' = [handles EXCEPT ![h].invoked = TRUE]
  /\ last' = Before("unsubscribe", h, handles[h].topic, St)
  /\ UNCHANGED <<closeRun, plainRun>>

OnStatusChange(cb) ==
  /\ Becomes(onStatusChange(St, cb))
  /\ last' = Before("onStatusChange", 0, cb, St)
  /\ plainRun' = (plainRun /\ ~(cb = "obsClose" /\ currentState = CONNECTED))
  /\ UNCHANGED <<handles, closeRun>>

OffStatusChange(cb) ==
  /\ Becomes([offStatusChange(St, cb) EXCEPT !.delivered[cb] = "none"])
  /\ last' = Before("offStatusChange", 0, cb, St)
  /\ UNCHANGED <<handles, closeRun, plainRun>>

Close ==
  /\ Becomes(close(St))
  /\ last' = Before("close", 0, "", St)
  /\ plainRun' = FALSE
  /\ UNCHANGED <<handles, closeRun>>

\* the transport t reports that it is open
TransportOpen(t) ==
  /\ t \in 1..created
  /\ readyState[t] = "CONNECTING"
  /\ t \notin closeFired
  /\ Becomes(onopen([St EXCEPT !.readyState[t] = "OPEN", !.scheduled = <<>>], t))
  /\ last' = Before("open", t, "", St)
  /\ closeRun' = 0
  /\ plainRun' = ("obsClose" \notin Range(statusCallbacks))
  /\ UNCHANGED handles

\* the transport t reports an error.  A host fires the error event of a
\* failed connection after it has left CONNECTING / OPEN: with readyState
\* already CLOSED (dead = TRUE) or still CLOSING; the close event follows.
TransportError(t, dead) ==
  /\ t \in 1..created
  /\ t \notin closeFired
  /\ readyState[t] # "CLOSED"
  /\ Becomes(onerror([St EXCEPT !.readyState[t] = IF dead THEN "CLOSED" ELSE "CLOSING"]))
  /\ last' = Before("error", t, "", St)
  /\ UNCHANGED <<handles, closeRun, plainRun>>

\* the transport t reports that it is closed (once per transport)
TransportClosed(t) ==
  /\ t \in 1..created
  /\ t \notin closeFired
  /\ Becomes(onclose([St EXCEPT !.readyState[t] = "CLOSED",
                                !.closeFired = @ \cup {t}]))
  /\ last' = Before("closed", t, "", St)
  /\ closeRun' = closeRun + 1
  /\ UNCHANGED <<handles, plainRun>>

\* the transport t delivers an inbound frame
TransportMessage(t, raw) ==
  /\ t \in 1..created
  /\ t \notin closeFired
  /\ readyState[t] \in {"OPEN", "CLOSING"}
  /\ Becomes(onmessage([St EXCEPT !.frame = raw], raw))
  /\ last' = Before("message", t, raw.product_id, St)
  /\ UNCHANGED <<handles, closeRun, plainRun>>

\* the i-th pending reconnect timer fires and runs connect()
ReconnectTimer(i, throws, maxT) ==
  /\ i \in 1..Len(timers)
  /\ throws \/ created < maxT
  /\ Becomes(connect([St EXCEPT !.timers = SubSeq(@, 1, i - 1) \o SubSeq(@, i + 1, Len(@))],
                     throws))
  /\ last' = Before("timer", timers[i], "", St)
  /\ plainRun' = (plainRun /\ ~throws)
  /\ UNCHANGED <<handles, closeRun>>

\* an active heartbeat interval fires
HeartbeatTimer(id) ==
  /\ id \in intervals
  /\ Becomes(heartbeatTick(St))
  /\ last' = Before("heartbeat", id, "", St)
  /\ UNCHANGED <<handles, closeRun, plainRun>>

\* React mounts the card for sym: its state starts from the useState
\* initialisers and the subscribe effect runs with the handler of the first
\* render
CardMount(sym, handler, maxS) ==
  /\ ~cards[sym].mounted
  /\ Len(handles) < maxS
  /\ Becomes([cardEffect(St, sym, handler, Len(handles) + 1) EXCEPT
                !.charts[sym] = [data |-> NoData, chartData |-> <<>>]])
  /\ handles' = Append(handles, [topic |-> ProductIdOf(sym), cb |-> handler,
                                  invoked |-> FALSE])
  /\ last' = Before("mount", Len(handles) + 1, sym, St)
  /\ UNCHANGED <<closeRun, plainRun>>

\* handleWebSocketData has a new identity: React runs the cleanup of the
\* previous effect, then the effect again, within one commit
CardRerender(sym, handler, maxS) ==
  /\ cards[sym].mounted
  /\ handler # cards[sym].handler
  /\ Len(handles) < maxS
  /\ Becomes(cardEffect(cardCleanup(St, handles[cards[sym].handle].topic),
                        sym, handler, Len(handles) + 1))
  /\ handles' = Append([handles EXCEPT ![cards[sym].handle].invoked = TRUE],
                       [topic |-> ProductIdOf(sym), cb |-> handler, invoked |-> FALSE])
  /\ last' = Before("rerender", cards[sym].handle, sym, St)
  /\ UNCHANGED <<closeRun, plainRun>>

\* React unmounts the card for sym: the cleanup of its last effect runs
CardUnmount(sym) ==
  /\ cards[sym].mounted
  /\ Becomes([cardCleanup(St, handles[cards[sym].handle].topic) EXCEPT
                !.cards[sym].mounted = FALSE])
  /\ handles' = [handles EXCEPT ![cards[sym].handle].invoked = TRUE]
  /\ last' = Before("unmount", cards[sym].handle, sym, St)
  /\ UNCHANGED <<closeRun, plainRun>>

\* the transport t delivers the next ticker frame of the exchange for
\* productId
Ticker(t, productId, maxTicks) ==
  /\ t \in 1..created
  /\ t \notin closeFired
  /\ readyState[t] \in {"OPEN", "CLOSING"}
  /\ ticks < maxTicks
  /\ Becomes(onmessage([St EXCEPT !.frame = TickerFrame(productId, ticks + 1),
                                  !.ticks = ticks + 1],
                        TickerFrame(productId, ticks + 1)))
  /\ last' = Before("ticker", t, productId, St)
  /\ UNCHANGED <<handles, closeRun, plainRun>>

\* the user clicks the reset button of the card for sym
CardReset(sym) ==
  /\ cards[sym].mounted
  /\ Becomes(resetChart(St, sym))
  /\ last' = Before("reset", 0, sym, St)
  /\ UNCHANGED <<handles, closeRun, plainRun>>

\* close() and the events of the host: transports and timers.
NextHost(maxT) ==
  \/ Close
  \/ \E t \in 1..created : TransportOpen(t)
  \/ \E t \in 1..created, dead \in BOOLEAN : TransportError(t, dead)
  \/ \E t \in 1..created : TransportClosed(t)
  \/ \E i \in 1..Len(timers), throws \in BOOLEAN : ReconnectTimer(i, throws, maxT)
  \/ \E id \in intervals : HeartbeatTimer(id)

\* The events of a client that registers no status observer (as the
\* application's only client, CryptoCard, does).
NextClient(maxT, maxS, topics, callbacks) ==
  \/ \E topic \in topics, cb \in callbacks : Subscribe(topic, cb, maxS)
  \/ \E h \in 1..Len(handles) : Unsubscribe(h)
  \/ NextHost(maxT)

NextB(maxT, maxS, topics, callbacks, observers) ==
  \/ NextClient(maxT, maxS, topics, callbacks)
  \/ \E cb \in observers : OnStatusChange(cb)
  \/ \E cb \in observers : OffStatusChange(cb)

\* The connection specification: long reconnect chains, the observer that
\* calls close(), one consumer of one topic.
Next == NextB(MaxTransports, MaxSubscribes, {"BTC-USD"}, {"cbA"}, {"obsClose"})
Spec == Init /\ [][Next]_vars

\* The registry specification: several subscribe calls on two topics, against
\* a shorter chain of transports; after the constructor, new WebSocket(...)
\* does not throw (attempts fail by closing before they open).
NextRegistry ==
  \/ \E topic \in Topics, cb \in {"cbA"} : Subscribe(topic, cb, RegSubscribes)
  \/ \E h \in 1..Len(handles) : Unsubscribe(h)
  \/ \E cb \in {"obsClose"} : OnStatusChange(cb)
  \/ \E cb \in {"obsClose"} : OffStatusChange(cb)
  \/ Close
  \/ \E t \in 1..created : TransportOpen(t)
  \/ \E t \in 1..created, dead \in BOOLEAN : TransportError(t, dead)
  \/ \E t \in 1..created : TransportClosed(t)
  \/ \E i \in 1..Len(timers), throws \in {FALSE} : ReconnectTimer(i, throws, RegTransports)
  \/ \E id \in intervals : HeartbeatTimer(id)
SpecRegistry == Init /\ [][NextRegistry]_vars

\* The router specification: inbound frames against two topics, on a single
\* transport, with no status observer.
NextRouter ==
  \/ NextClient(RouterTransports, RouterSubscribes, Topics, {"cbA"})
  \/ \E t \in 1..created, raw \in Frames : TransportMessage(t, raw)
SpecRouter == Init /\ [][NextRouter]_vars

\* The overwrite specification: inbound frames against one topic that both
\* consumer callbacks subscribe to.
NextOverwrite ==
  \/ NextClient(OverwriteTransports, OverwriteSubscribes, {"BTC-USD"}, TickerCallbacks)
  \/ \E t \in 1..created, raw \in Frames : TransportMessage(t, raw)
SpecOverwrite == Init /\ [][NextOverwrite]_vars

\* The observer specification: every observer, on a short chain of
\* transports.
NextObservers ==
  NextB(ObserverTransports, ObserverSubscribes, {"BTC-USD"}, {"cbA"}, Observers)
SpecObservers == Init /\ [][NextObservers]_vars

\* The event specification: every kind of event of the client (API calls,
\* observer registration, transport events, inbound frames, timers).
NextEvents ==
  \/ NextB(EventTransports, EventSubscribes, {"BTC-USD"}, {"cbA"}, {"obsClose"})
  \/ \E t \in 1..created, raw \in Frames : TransportMessage(t, raw)
SpecEvents == Init /\ [][NextEvents]_vars

\* The fair specification: close() is never called (no Close action, no
\* observer that calls it), every pending reconnect timer fires, and every
\* transport that has not reported open reports open or close.
TimerFires == \E i \in 1..FairTransports, throws \in BOOLEAN : ReconnectTimer(i, throws, FairTransports)
TransportSettles ==
  \E t \in 1..FairTransports :
     /\ heartbeatInterval # t
     /\ (TransportOpen(t) \/ TransportClosed(t))
NextFair ==
  \/ \E topic \in {"BTC-USD"}, cb \in {"cbA"} : Subscribe(topic, cb, FairSubscribes)
  \/ \E h \in 1..Len(handles) : Unsubscribe(h)
  \/ \E cb \in {"obsThrow"} : OnStatusChange(cb)
  \/ \E cb \in {"obsThrow"} : OffStatusChange(cb)
  \/ \E t \in 1..created : TransportOpen(t)
  \/ \E t \in 1..created, dead \in BOOLEAN : TransportError(t, dead)
  \/ \E t \in 1..created : TransportClosed(t)
  \/ \E i \in 1..Len(timers), throws \in BOOLEAN : ReconnectTimer(i, throws, FairTransports)
  \/ \E id \in intervals : HeartbeatTimer(id)
SpecFair ==
  Init /\ [][NextFair]_vars /\ WF_vars(TimerFires) /\ WF_vars(TransportSettles)

\* The component specification: the cards of two symbols are the only
\* consumers of the client.
NextCard ==
  \/ \E sym \in Symbols : CardMount(sym, "handlerA", CardSubscribes)
  \/ \E sym \in Symbols, handler \in Handlers : CardRerender(sym, handler, CardSubscribes)
  \/ \E sym \in Symbols : CardUnmount(sym)
  \/ NextHost(CardTransports)
SpecCard == Init /\ [][NextCard]_vars

\* The chart specification: one card, its ticker stream and its reset
\* button, on the transport of the constructor.
NextChart ==
  \/ \E sym \in {"btc"} : CardMount(sym, "handlerA", ChartSubscribes)
  \/ \E t \in 1..created : TransportOpen(t)
  \/ \E t \in 1..created, sym \in {"btc"} : Ticker(t, ProductIdOf(sym), ChartTicks)
  \/ \E sym \in {"btc"} : CardReset(sym)
SpecChart == Init /\ [][NextChart]_vars

TypeOK ==
  /\ ws \in 0..created
  /\ currentState \in WebSocketState
  /\ reconnectAttempts \in 0..maxReconnectAttempts

\* ================================================================ properties
\* Transports whose readyState is CONNECTING or OPEN.
LiveTransports == {t \in 1..created : readyState[t] \in {"CONNECTING", "OPEN"}}
IsSubscribeMsg(m) == m.msg.type = "subscribe"
SubscribeMsgs(q) == SelectSeq(q, IsSubscribeMsg)
ProductIds(m) == m.msg.channels[1].product_ids
NoDuplicates(q) == \A i, j \in 1..Len(q) : q[i] = q[j] => i = j

ActiveTopics ==
  {topic \in Topics :
     \E h \in 1..Len(handles) :
        /\ handles[h].topic = topic
        /\ ~handles[h].invoked
        /\ \A g \in (h + 1)..Len(handles) : handles[g].topic # topic}

\* C2: the registry's key set equals the set of topics whose most recent
\* subscribe has not had its own handle invoked.
C2_RegistryEqualsActive == KeySet(subscribers) = ActiveTopics

\* C3: between two successful opens at most 5 reconnect attempts are
\* scheduled, the Nth with delay 1000 * N ms; there is no 6th.
C3_BackoffSchedule ==
  /\ Len(scheduled) <= 5
  /\ \A i \in 1..Len(scheduled) : scheduled[i] = 1000 * i

C3_Witness == last.op = "closed" /\ Len(scheduled) = 5 /\ scheduled[5] = 5000

\* C4: every open event leaves the attempt counter at 0, and the close event
\* that ends a CONNECTED session (close() never called) schedules the first
\* attempt of a fresh cycle, with delay 1000 ms.
C4_OpenResetsCounter ==
  /\ (last.op = "open" => reconnectAttempts = 0)
  /\ (last.op = "closed" /\ last.state = CONNECTED /\ ~closed) =>
        /\ last.attempts = 0
        /\ reconnectAttempts = 1
        /\ timers = <<1000>>
        /\ currentState = RECONNECTING

C4_Witness ==
  /\ last.op = "closed" /\ last.n >= 2
  /\ last.state = CONNECTED /\ ~closed
  /\ timers = <<1000>>

\* C5 (as stated): from counter 0, the 5th consecutive close event schedules
\* no further reconnect and leaves the state DISCONNECTED.
C5_FifthCloseIsTerminal ==
  (last.op = "closed" /\ plainRun /\ closeRun = 5) =>
     timers = <<>> /\ currentState = DISCONNECTED

\* C5 (amended): from counter 0, with no open, close() or synchronous open
\* failure in between, the Nth consecutive close event (N = 1..5) schedules
\* attempt N with delay 1000 * N and leaves RECONNECTING; the 6th, handled
\* with the counter at 5, schedules nothing and leaves DISCONNECTED.
C5_SixthCloseIsTerminal ==
  (last.op = "closed" /\ plainRun) =>
     IF closeRun <= 5
       THEN /\ reconnectAttempts = closeRun
            /\ timers = <<1000 * closeRun>>
            /\ currentState = RECONNECTING
       ELSE /\ reconnectAttempts = 5
            /\ timers = <<>>
            /\ currentState = DISCONNECTED

C5_Witness ==
  /\ last.op = "closed" /\ plainRun /\ closeRun = 6
  /\ currentState = DISCONNECTED /\ timers = <<>>

\* C6: once close() has been called, no new transport is constructed and the
\* state never again becomes RECONNECTING or CONNECTED.
C6_NoReconnectAfterClose ==
  [][closed => /\ created' = created
               /\ (currentState' # currentState =>
                     currentState' \notin {RECONNECTING, CONNECTED})]_vars

\* C7: in every state a call of close() leaves the attempt counter at 5, no
\* heartbeat timer active, and has asked the current transport to close.
C7_CloseSaturates ==
  last.op = "close" =>
     /\ reconnectAttempts = 5
     /\ intervals = {}
     /\ ws # 0
     /\ closeCalls = <<ws>>

\* C8: when close() was called while CONNECTED with no reconnect timer
\* pending, the close event of that transport leaves the state DISCONNECTED,
\* notifies no observer of RECONNECTING and schedules nothing.
C8_CloseWhileConnected ==
  (last.op = "closed" /\ closedConnected = last.n) =>
     /\ currentState = DISCONNECTED
     /\ timers = <<>>
     /\ \A i \in 1..Len(notes) : notes[i].state # RECONNECTING

\* The subscribe messages of the last event that list the topic.
Requests(topic) ==
  {i \in 1..Len(sent) : IsSubscribeMsg(sent[i]) /\ topic \in Range(ProductIds(sent[i]))}

\* C9 (as stated): a subscribe on a transport that is not open sends nothing,
\* and every open event sends exactly one subscribe request containing each
\* registered topic.
C9_DeferredAlways ==
  /\ (last.op = "subscribe" /\ ~IsOpen(St)) => sent = <<>>
  /\ last.op = "open" =>
        \A topic \in KeySet(subscribers) : Cardinality(Requests(topic)) = 1

\* C9 (amended): as stated, unless a status observer called close() during
\* the CONNECTED notification of that open; then the open sends nothing.
C9_DeferredSubscribe ==
  /\ (last.op = "subscribe" /\ ~IsOpen(St)) => sent = <<>>
  /\ (last.op = "open" /\ closeCalls = <<>>) =>
        /\ \A topic \in KeySet(subscribers) : Cardinality(Requests(topic)) = 1
        /\ Len(sent) <= 1
  /\ (last.op = "open" /\ closeCalls # <<>>) => sent = <<>>

C9_Witness ==
  /\ last.op = "open" /\ last.n = 1
  /\ closeCalls = <<>>
  /\ "BTC-USD" \in KeySet(subscribers)
  /\ Cardinality(Requests("BTC-USD")) = 1

\* C10 (as stated): subscribe and the unsubscribe handle send their message
\* if and only if the connection state is CONNECTED.
C10_SendIffConnected ==
  last.op \in {"subscribe", "unsubscribe"} =>
     (sent # <<>> <=> currentState = CONNECTED)

\* C10 (amended): subscribe and the unsubscribe handle send their
\* single-topic message if and only if the current transport is open at the
\* call; that happens only in state CONNECTED, but not in every CONNECTED
\* state (after close() the transport is closing and nothing is sent).  The
\* registry is updated in either case.
C10_SendIffTransportOpen ==
  /\ last.op = "subscribe" =>
        /\ MapHas(subscribers, last.name)
        /\ sent = IF IsOpen(St)
                    THEN <<[msg |-> SubscribeMessage(<<last.name>>), to |-> ws,
                            readyState |-> "OPEN"]>>
                    ELSE <<>>
  /\ last.op = "unsubscribe" =>
        /\ ~MapHas(subscribers, last.name)
        /\ sent = IF IsOpen(St)
                    THEN <<[msg |-> UnsubscribeMessage(<<last.name>>), to |-> ws,
                            readyState |-> "OPEN"]>>
                    ELSE <<>>
  /\ (last.op \in {"subscribe", "unsubscribe"} /\ sent # <<>>) =>
        currentState = CONNECTED

C10_Witness ==
  /\ last.op = "subscribe"
  /\ currentState = CONNECTED
  /\ ~IsOpen(St)
  /\ sent = <<>>

\* C11: invoking an unsubscribe handle that was already invoked changes no
\* registry entry and sends no outbound message.
C11_SecondInvocationNoOp ==
  [][(last'.op = "unsubscribe" /\ handles[last'.n].invoked) =>
        (subscribers' = subscribers /\ sent' = <<>>)]_vars

\* The callback passed to the most recent subscribe call on the topic.
LatestCallback(topic) ==
  handles[CHOOSE h \in 1..Len(handles) :
            /\ handles[h].topic = topic
            /\ \A g \in (h + 1)..Len(handles) : handles[g].topic # topic].cb

\* C12: the registry holds at most one entry per topic, a subscribe leaves
\* its own callback registered under the topic, and a ticker invokes a single
\* callback: the one of the most recent subscribe on that topic.
C12_LastWriterWins ==
  /\ NoDuplicates(Keys(subscribers))
  /\ last.op = "subscribe" => MapGet(subscribers, last.name) = handles[Len(handles)].cb
  /\ (last.op = "message" /\ calls # <<>>) =>
        /\ Len(calls) = 1
        /\ calls[1].cb = LatestCallback(frame.product_id)

C12_Witness ==
  /\ last.op = "message"
  /\ Len(handles) = 2
  /\ handles[1].topic = handles[2].topic
  /\ handles[1].cb = "cbA" /\ handles[2].cb = "cbB"
  /\ Len(calls) = 1 /\ calls[1].cb = "cbB"

C14_IgnoredFrames ==
  [][(last'.op = "message" /\ frame'.kind = "object"
        /\ (frame'.type # "ticker" \/ ~MapHas(subscribers, frame'.product_id))) =>
        /\ calls' = <<>>
        /\ ~uncaught'
        /\ UNCHANGED <<currentState, reconnectAttempts, subscribers>>]_vars

C14_Witness ==
  /\ last.op = "message"
  /\ frame.type = "subscriptions"
  /\ MapHas(subscribers, frame.product_id)
  /\ calls = <<>> /\ ~uncaught

\* C15: a frame that fails to parse is discarded without an exception
\* escaping the message handler and without a callback being invoked.
C15_MalformedDiscarded ==
  (last.op = "message" /\ frame.kind = "malformed") => (~uncaught /\ calls = <<>>)

\* C16: an exception thrown by a consumer callback does not propagate out of
\* the message handler.
C16_CallbackThrowCaught ==
  (last.op = "message" /\ \E i \in 1..Len(calls) : calls[i].cb = "cbB") => ~uncaught

\* C17: onStatusChange(cb) invokes cb exactly once, within the call, with the
\* state getCurrentState() returned when it was called, whether or not cb was
\* registered before; a throw of cb is caught and cb is registered afterwards.
C17_ImmediateNotification ==
  last.op = "onStatusChange" =>
     /\ notes = <<[cb |-> last.name, state |-> last.state]>>
     /\ getCurrentState(St) = last.state
     /\ last.name \in Range(statusCallbacks)
     /\ ~uncaught

C17_Witness ==
  /\ last.op = "onStatusChange" /\ last.name = "obsThrow"
  /\ last.state = CONNECTED
  /\ statusCallbacks = <<"obsThrow", "obsClose">>
  /\ notes = <<[cb |-> "obsThrow", state |-> CONNECTED]>>

Pos(q, x) == CHOOSE i \in 1..Len(q) : q[i] = x
OrderKept(q, r) ==
  \A x, y \in Range(q) \cap Range(r) : (Pos(q, x) < Pos(q, y)) <=> (Pos(r, x) < Pos(r, y))

\* C18: the observer list never holds a callback twice; onStatusChange adds
\* its callback at the end unless it is there already; only offStatusChange
\* removes an entry, and only its own callback; the order of the others is
\* kept; no event notifies a callback twice of the same transition.
C18_ObserverList ==
  /\ [](NoDuplicates(statusCallbacks) /\ NoDuplicates(notes))
  /\ [][/\ OrderKept(statusCallbacks, statusCallbacks')
        /\ Range(statusCallbacks') =
             IF last'.op = "onStatusChange" THEN Range(statusCallbacks) \cup {last'.name}
             ELSE IF last'.op = "offStatusChange" THEN Range(statusCallbacks) \ {last'.name}
             ELSE Range(statusCallbacks)
        /\ (last'.op = "onStatusChange" /\ last'.name \notin Range(statusCallbacks)) =>
              statusCallbacks'[Len(statusCallbacks')] = last'.name]_vars

C18_Witness ==
  /\ last.op = "onStatusChange" /\ last.name = "obsClose"
  /\ statusCallbacks = <<"obsClose", "obsThrow">>

\* C19: the state changes only through updateStatus, which invokes every
\* registered observer once, in registration order, with the new state; so
\* every registered observer was last handed the current state.
C19_TransitionsNotifyAll ==
  /\ \A o \in Range(statusCallbacks) : delivered[o] = getCurrentState(St)
  /\ last.op \notin {"onStatusChange", "offStatusChange", "constructor"} =>
        /\ currentState = IF transitions = <<>> THEN last.state
                          ELSE transitions[Len(transitions)]
        /\ Len(notes) = Len(transitions) * Len(statusCallbacks)
        /\ \A k \in 1..Len(transitions), i \in 1..Len(statusCallbacks) :
              notes[(k - 1) * Len(statusCallbacks) + i] =
                 [cb |-> statusCallbacks[i], state |-> transitions[k]]

C19_Witness ==
  /\ last.op = "closed"
  /\ Len(statusCallbacks) = 2
  /\ transitions = <<DISCONNECTED, RECONNECTING>>
  /\ Len(notes) = 4

\* C20: when the first of two observers throws, the second is still notified
\* of every transition, the state keeps the new value, nothing escapes the
\* handler, and the rest of the handler runs: the open event resets the
\* counter, replays the registry and starts the heartbeat, the close event
\* takes the reconnect decision.
C20_ThrowingObserverIsolated ==
  (/\ last.op \in {"open", "error", "closed", "timer"}
   /\ Len(statusCallbacks) = 2 /\ statusCallbacks[1] = "obsThrow"
   /\ transitions # <<>>) =>
     /\ \A k \in 1..Len(transitions) :
           \E i \in 1..Len(notes) :
              notes[i] = [cb |-> statusCallbacks[2], state |-> transitions[k]]
     /\ currentState = transitions[Len(transitions)]
     /\ ~uncaught
     /\ last.op = "open" =>
           /\ reconnectAttempts = 0
           /\ heartbeatInterval = last.n /\ last.n \in intervals
           /\ (subscribers # <<>> /\ closeCalls = <<>>) => Len(sent) = 1
     /\ last.op = "closed" =>
           IF last.attempts < 5
             THEN reconnectAttempts = last.attempts + 1 /\ Len(timers) = 1
             ELSE timers = <<>> /\ currentState = DISCONNECTED

C20_Witness ==
  /\ last.op = "open"
  /\ statusCallbacks = <<"obsThrow", "obsClose">>
  /\ subscribers # <<>>
  /\ notes = <<[cb |-> "obsThrow", state |-> CONNECTED],
               [cb |-> "obsClose", state |-> CONNECTED]>>

\* C21: offStatusChange(cb) leaves the observer list without cb and with every
\* other observer at its place relative to the others, changes nothing when
\* cb is not registered, and invokes no observer; a callback that is not
\* registered is never notified by any event.
C21_Unregistered ==
  /\ [](\A i \in 1..Len(notes) : notes[i].cb \in Range(statusCallbacks))
  /\ [][last'.op = "offStatusChange" =>
          /\ statusCallbacks' = SelectSeq(statusCallbacks, LAMBDA cb : cb # last'.name)
          /\ (last'.name \notin Range(statusCallbacks)) => (statusCallbacks' = statusCallbacks)
          /\ notes' = <<>> /\ transitions' = <<>> /\ sent' = <<>>
          /\ UNCHANGED <<currentState, reconnectAttempts, subscribers, timers,
                         intervals, ws, readyState>>]_vars

C21_Witness ==
  /\ last.op = "offStatusChange" /\ last.name = "obsThrow"
  /\ statusCallbacks = <<"obsClose">>
  /\ delivered["obsThrow"] = "none"

\* C22: while a card is mounted, the topic of its symbol is registered under
\* the card's current handler and the handle of its latest subscribe has not
\* been called; a change of handler calls that handle and then subscribes
\* again; unmounting calls the handle of the latest subscribe, once, and no
\* other, and the topic is no longer registered.
C22_CardKeepsTopic ==
  /\ [](\A sym \in Symbols : cards[sym].mounted =>
          /\ cards[sym].handle \in 1..Len(handles)
          /\ handles[cards[sym].handle].topic = ProductIdOf(sym)
          /\ ~handles[cards[sym].handle].invoked
          /\ MapHas(subscribers, ProductIdOf(sym))
          /\ MapGet(subscribers, ProductIdOf(sym)) = cards[sym].handler)
  /\ [][/\ last'.op = "rerender" =>
             /\ ~handles[last'.n].invoked /\ handles'[last'.n].invoked
             /\ cards'[last'.name].handle = Len(handles')
             /\ (ws' # 0 /\ readyState'[ws'] = "OPEN") =>
                   /\ Len(sent') = 2
                   /\ sent'[1].msg = UnsubscribeMessage(<<ProductIdOf(last'.name)>>)
                   /\ sent'[2].msg = SubscribeMessage(<<ProductIdOf(last'.name)>>)
        /\ last'.op = "unmount" =>
             /\ last'.n = cards[last'.name].handle
             /\ ~handles[last'.n].invoked /\ handles'[last'.n].invoked
             /\ \A g \in 1..Len(handles) : g # last'.n => handles'[g] = handles[g]
             /\ Len(handles') = Len(handles)
             /\ ~MapHas(subscribers', ProductIdOf(last'.name))]_vars

C22_Witness ==
  /\ last.op = "unmount" /\ last.name = "btc"
  /\ Len(handles) = 3
  /\ handles[1].topic = "BTC-USD" /\ handles[1].invoked
  /\ handles[3].topic = "BTC-USD" /\ handles[3].invoked /\ last.n = 3
  /\ cards["eth"].mounted
  /\ KeySet(subscribers) = {"ETH-USD"}

\* C23: only subscribe and the handles it returns change the registry; every
\* other event (transport open, message, error, close, reconnect timer,
\* heartbeat, close(), observer registration) leaves it as it was, also when
\* the reconnect attempts are exhausted.
C23_RegistryFrame ==
  [][last'.op \notin {"subscribe", "unsubscribe"} => subscribers' = subscribers]_vars

C23_Witness ==
  /\ last.op = "closed" /\ last.attempts = maxReconnectAttempts
  /\ exhausted /\ currentState = DISCONNECTED
  /\ subscribers # <<>>

\* C24: a transport error event makes the state ERROR and notifies the
\* observers of it, and nothing else: no close() of the transport, no timer,
\* no message, the counter, the registry, the transport reference and the
\* heartbeat timer as before; the state then stays ERROR until a close event.
C24_ErrorOnlySetsState ==
  [][/\ last'.op = "error" =>
          /\ currentState' = ERROR /\ transitions' = <<ERROR>>
          /\ closeCalls' = <<>> /\ sent' = <<>>
          /\ UNCHANGED <<timers, reconnectAttempts, subscribers, ws,
                         heartbeatInterval, intervals, statusCallbacks>>
     /\ (currentState = ERROR /\ last'.op # "closed") => currentState' = ERROR]_vars

C24_Witness ==
  /\ last.op = "error" /\ last.state = CONNECTED
  /\ currentState = ERROR
  /\ Len(statusCallbacks) = 2 /\ Len(notes) = 2
  /\ timers = <<>>

\* C25: a close event stops the heartbeat, reports DISCONNECTED and then takes
\* the reconnect decision: with the counter below the ceiling the observers
\* see DISCONNECTED and next RECONNECTING, the counter grows by one and one
\* timer is added, with delay reconnectDelay times the new counter; with the
\* counter at the ceiling DISCONNECTED is the only transition, and no timer.
C25_CloseEventOrder ==
  [][last'.op = "closed" =>
       /\ intervals' = {}
       /\ IF reconnectAttempts < maxReconnectAttempts
            THEN /\ transitions' = <<DISCONNECTED, RECONNECTING>>
                 /\ currentState' = RECONNECTING
                 /\ reconnectAttempts' = reconnectAttempts + 1
                 /\ timers' = Append(timers, reconnectDelay * reconnectAttempts')
                 /\ \A o \in Range(statusCallbacks) :
                       SelectSeq(notes', LAMBDA x : x.cb = o) =
                          <<[cb |-> o, state |-> DISCONNECTED],
                            [cb |-> o, state |-> RECONNECTING]>>
            ELSE /\ transitions' = <<DISCONNECTED>>
                 /\ currentState' = DISCONNECTED
                 /\ UNCHANGED <<reconnectAttempts, timers>>]_vars

C25_Witness ==
  /\ last.op = "closed" /\ last.attempts = 1
  /\ reconnectAttempts = 2
  /\ timers = <<2000>>
  /\ Len(statusCallbacks) = 2 /\ Len(notes) = 4
  /\ intervals = {}

\* C26: when constructing the transport throws, the state becomes ERROR and
\* the reconnect decision is taken within the same call: below the ceiling
\* the counter grows by one, the state ends RECONNECTING and a timer of
\* reconnectDelay times the new counter is pending; at the ceiling the state
\* ends DISCONNECTED and no timer is pending.
C26_SyncOpenFailure ==
  (last.op \in {"timer", "constructor"} /\ ERROR \in Range(transitions)) =>
     IF last.attempts < maxReconnectAttempts
       THEN /\ SubSeq(transitions, Len(transitions) - 1, Len(transitions)) =
                 <<ERROR, RECONNECTING>>
            /\ reconnectAttempts = last.attempts + 1
            /\ currentState = RECONNECTING
            /\ timers = <<reconnectDelay * reconnectAttempts>>
       ELSE /\ SubSeq(transitions, Len(transitions) - 1, Len(transitions)) =
                 <<ERROR, DISCONNECTED>>
            /\ reconnectAttempts = maxReconnectAttempts
            /\ currentState = DISCONNECTED
            /\ timers = <<>>

C26_Witness ==
  /\ last.op = "timer" /\ last.attempts = maxReconnectAttempts
  /\ transitions = <<ERROR, DISCONNECTED>>
  /\ currentState = DISCONNECTED /\ timers = <<>>

\* C27: once handleReconnect has run with the counter at the ceiling, the
\* state is DISCONNECTED and no reconnect timer is pending, and every later
\* event leaves it so: no transition takes place and observers are handed
\* nothing but DISCONNECTED.
C27_ExhaustionIsTerminal ==
  /\ [](exhausted => (currentState = DISCONNECTED /\ timers = <<>>))
  /\ [][exhausted =>
          /\ exhausted'
          /\ transitions' = <<>>
          /\ \A i \in 1..Len(notes') : notes'[i].state = DISCONNECTED]_vars

C27_Witness ==
  /\ exhausted
  /\ last.op = "onStatusChange" /\ last.state = DISCONNECTED
  /\ notes = <<[cb |-> last.name, state |-> DISCONNECTED]>>
  /\ reconnectAttempts = maxReconnectAttempts
  /\ ~closed

\* C28: a heartbeat timer that fires while the state is not CONNECTED writes
\* nothing; a heartbeat that is written goes to the current transport, which
\* is OPEN, in state CONNECTED.
C28_HeartbeatOnlyConnected ==
  last.op = "heartbeat" =>
     /\ currentState # CONNECTED => sent = <<>>
     /\ \A i \in 1..Len(sent) :
           /\ sent[i].msg = HeartbeatMessage
           /\ sent[i].to = ws /\ sent[i].readyState = "OPEN"
           /\ currentState = CONNECTED /\ last.state = CONNECTED

C28_Witness ==
  /\ last.op = "heartbeat"
  /\ currentState = ERROR
  /\ ws # 0 /\ ws \notin closeFired
  /\ sent = <<>>

\* C29: an active heartbeat timer implies state CONNECTED.
C29_TimerOnlyWhileConnected ==
  intervals # {} => currentState = CONNECTED

\* C30: at most one heartbeat timer is active, and after an open event it is
\* the one that event started.
C30_SingleHeartbeatTimer ==
  /\ Cardinality(intervals) <= 1
  /\ intervals \subseteq {heartbeatInterval}
  /\ last.op = "open" => intervals = {last.n}

C30_Witness ==
  /\ last.op = "open" /\ last.n = 2
  /\ heartbeatInterval = 2 /\ intervals = {2}
  /\ closeFired = {1}

C32_CounterRange ==
  /\ [](/\ reconnectAttempts \in 0..maxReconnectAttempts
        /\ last.op = "constructor" =>
             reconnectAttempts = IF ERROR \in Range(transitions) THEN 1 ELSE 0)
  /\ [][reconnectAttempts' # reconnectAttempts =>
          \/ /\ reconnectAttempts' = reconnectAttempts + 1
             /\ reconnectAttempts < maxReconnectAttempts
             /\ last'.op \in {"closed", "timer"}
             /\ RECONNECTING \in Range(transitions')
          \/ /\ reconnectAttempts' = 0
             /\ last'.op = "open"
          \/ /\ reconnectAttempts' = maxReconnectAttempts
             /\ closeCalls' # <<>>]_vars

C32_Witness ==
  /\ last.op = "closed" /\ last.attempts = maxReconnectAttempts - 1
  /\ reconnectAttempts = maxReconnectAttempts
  /\ ~closed
  /\ created = maxReconnectAttempts

\* C33: at most one transport is CONNECTING or OPEN and at most one reconnect
\* timer is pending, never both at once; a live transport is the current one;
\* a timer is added only by the close event of the current transport or by a
\* connect() that failed, and a transport is constructed only by a timer.
C33_SingleSession ==
  /\ [](/\ Cardinality(LiveTransports) <= 1
        /\ Len(timers) <= 1
        /\ ~(LiveTransports # {} /\ timers # <<>>)
        /\ LiveTransports \subseteq {ws})
  /\ [][/\ Len(timers') > Len(timers) =>
             \/ last'.op = "closed" /\ last'.n = ws
             \/ last'.op = "timer" /\ ERROR \in Range(transitions')
        /\ created' # created =>
             /\ last'.op = "timer" /\ timers # <<>> /\ timers' = <<>>
             /\ created' = created + 1 /\ ws' = created']_vars

C33_Witness ==
  /\ created = 2 /\ closeFired = {1, 2}
  /\ last.op = "closed" /\ last.n = 2
  /\ Len(timers) = 1
  /\ LiveTransports = {}

\* C34: every message an event writes (the replayed subscribe, a single-topic
\* subscribe, an unsubscribe, a heartbeat) goes to the current transport, and
\* that transport is OPEN when it is written.
C34_SendOnlyWhenOpen ==
  \A i \in 1..Len(sent) :
     /\ sent[i].to # 0 /\ sent[i].to = ws
     /\ sent[i].readyState = "OPEN"
     /\ sent[i].msg.type \in {"subscribe", "unsubscribe", "heartbeat"}

C34_Witness ==
  /\ last.op = "unsubscribe"
  /\ Len(sent) = 1 /\ sent[1].msg.type = "unsubscribe"
  /\ sent[1].to = 2 /\ sent[1].readyState = "OPEN"
  /\ closed

\* C35: under the fair specification, a client in state CONNECTING or
\* RECONNECTING eventually is CONNECTED, or DISCONNECTED for good with the
\* counter at the ceiling.
C35_AttemptsEnd ==
  (currentState \in {CONNECTING, RECONNECTING}) ~>
     \/ currentState = CONNECTED
     \/ (currentState = DISCONNECTED /\ exhausted
           /\ reconnectAttempts = maxReconnectAttempts)

C35_Witness ==
  /\ exhausted /\ currentState = DISCONNECTED
  /\ reconnectAttempts = maxReconnectAttempts
  /\ last.op = "timer" /\ last.state = RECONNECTING
  /\ created = 1
\* C36: the chart of a card never holds more than 100 points and holds them
\* in arrival order; a ticker handed to the card appends one point, the
\* latest arrival, and removes the first point and no other exactly when the
\* list was full; a reset leaves the list empty; nothing else changes it.
C36_ChartWindow ==
  [][\A sym \in Symbols :
       LET old == charts[sym].chartData
           new == charts'[sym].chartData
           dropped == Len(old) + 1 - Len(new)
           updated == /\ last'.op = "ticker" /\ last'.name = ProductIdOf(sym)
                      /\ calls' # <<>>
           reset == last'.op \in {"reset", "mount"} /\ last'.name = sym
       IN /\ Len(new) <= maxChartPoints
          /\ \A i \in 1..(Len(new) - 1) : new[i].timestamp < new[i + 1].timestamp
          /\ updated =>
                /\ Len(new) = IF Len(old) < maxChartPoints THEN Len(old) + 1
                              ELSE maxChartPoints
                /\ new[Len(new)] = [timestamp |-> ticks', price |-> 50000]
                /\ \A i \in 1..(Len(new) - 1) : new[i] = old[i + dropped]
          /\ reset => new = <<>>
          /\ (~updated /\ ~reset) => new = old]_vars

C36_Witness ==
  /\ last.op = "ticker" /\ calls # <<>>
  /\ ticks = maxChartPoints + 1
  /\ Len(charts["btc"].chartData) = maxChartPoints
  /\ charts["btc"].chartData[1].timestamp = 2
  /\ charts["btc"].chartData[maxChartPoints].timestamp = maxChartPoints + 1

====
